---------------------------- MODULE Spec2Model ----------------------------
(***************************************************************************)
(* A model of icalendar-rs' component builder (src/src/components.rs):     *)
(* the InnerComponent storage, the Component trait's setters and getters,  *)
(* done() and the serialization routine fmt_write.                         *)
(*                                                                         *)
(* Text is modelled as a sequence of one-character strings, so that        *)
(* formatting and parsing are computed and not assumed.  A serialized      *)
(* line is the sequence of its tokens (key, ";", name, "=", value, ":",    *)
(* then the characters of the value); the output is the sequence of its    *)
(* lines.  Property, Parameter, Class and the date_time module follow the  *)
(* written specification (sections 4.1, 4.3 and 4.4).                      *)
(***************************************************************************)
EXTENDS Integers, Sequences, FiniteSets, TLC

VARIABLES
    kind,      \* component_kind() of the concrete type: fixed at construction
    inner,     \* the builder's InnerComponent (self.inner)
    returned,  \* Option: the value the latest done() returned
    out,       \* the sink the latest fmt_write wrote to, as a sequence of lines
    last,      \* the latest call and its arguments
    pre,       \* history: inner and returned as they were before the latest call
    calls      \* number of calls made so far

vars == <<kind, inner, returned, out, last, pre, calls>>

----------------------------------------------------------------------------
(* Bounds of the model.                                                    *)

MaxCalls == 3

MaxDateCalls == 2

MaxPriorityCalls == 3

----------------------------------------------------------------------------
(* Option<T>: None is the empty sequence, Some(x) a sequence of one.       *)

None == <<>>

Some(x) == <<x>>

IsSome(o) == Len(o) = 1

(* Text helpers.                                                           *)

Digits == <<"0", "1", "2", "3", "4", "5", "6", "7", "8", "9">>

IsDigit(c) == \E i \in 1..10 : Digits[i] = c

DigitValue(c) == (CHOOSE i \in 1..10 : Digits[i] = c) - 1

DigitChar(n) == Digits[n + 1]

(* u32::to_string: the decimal digits, most significant first, no padding. *)
RECURSIVE to_string(_)
to_string(n) ==
    IF n < 10 THEN <<DigitChar(n)>>
    ELSE Append(to_string(n \div 10), DigitChar(n % 10))

(* str::parse::<u32>(): an optional leading "+", then at least one digit   *)
(* and digits only; a value above u32::MAX = 4294967295 is an error.       *)
RECURSIVE parse_digits(_, _)
parse_digits(s, acc) ==
    IF s = <<>> THEN Some(acc)
    ELSE IF ~IsDigit(s[1]) THEN None
    ELSE LET d == DigitValue(s[1]) IN
         IF acc > 429496729 \/ (acc = 429496729 /\ d > 5) THEN None
         ELSE parse_digits(Tail(s), acc * 10 + d)

parse_u32(s) ==
    LET body == IF s # <<>> /\ s[1] = "+" THEN Tail(s) ELSE s IN
    IF body = <<>> THEN None ELSE parse_digits(body, 0)

(* chrono's zero-padded number of a fixed width (%Y: 4, %m %d %H %M %S: 2) *)
RECURSIVE Pad(_, _)
Pad(n, width) ==
    IF width = 0 THEN <<>>
    ELSE Append(Pad(n \div 10, width - 1), DigitChar(n % 10))

(* The number a fixed-width field of digits denotes; None if not digits.   *)
RECURSIVE parse_field(_, _)
parse_field(s, acc) ==
    IF s = <<>> THEN Some(acc)
    ELSE IF ~IsDigit(s[1]) THEN None
    ELSE parse_field(Tail(s), acc * 10 + DigitValue(s[1]))


----------------------------------------------------------------------------
(* Property model (specification section 4.1).                             *)

Parameter(name, value) == [key |-> name, val |-> value]

(* Property::new(key, value): key and value verbatim, no parameters.       *)
Property(key, value) == [key |-> key, val |-> value, params |-> <<>>]

(* Property::append_parameter: appended to the ordered parameter list.     *)
append_parameter(p, param) == [p EXCEPT !.params = Append(@, param)]

(* The value of the first parameter called name, if any.                   *)
param_value(p, name) ==
    LET hits == SelectSeq(p.params, LAMBDA q : q.key = name) IN
    IF hits = <<>> THEN None ELSE Some(hits[1].val)

RECURSIVE params_text(_)
params_text(ps) ==
    IF ps = <<>> THEN <<>>
    ELSE <<";", ps[1].key, "=", ps[1].val>> \o params_text(Tail(ps))

(* Property::fmt_write: one line, KEY[;PARAM=VALUE...]:VALUE               *)
property_line(p) == <<p.key>> \o params_text(p.params) \o <<":">> \o p.val

(* write_crlf!(out, "KEY:{}", value): one line KEY:value                   *)
text_line(key, value) == <<key, ":">> \o value

line_key(line) == line[1]

----------------------------------------------------------------------------
(* Class (specification section 4.4): a closed vocabulary.                 *)

Classes == {"Public", "Private", "Confidential"}

class_text(c) ==
    CASE c = "Public" -> <<"P", "U", "B", "L", "I", "C">>
      [] c = "Private" -> <<"P", "R", "I", "V", "A", "T", "E">>
      [] c = "Confidential" ->
            <<"C", "O", "N", "F", "I", "D", "E", "N", "T", "I", "A", "L">>

(* impl From<Class> for Property *)
class_property(c) == Property("CLASS", class_text(c))

(* Class::from_str: unrecognized text is None *)
class_from_str(s) ==
    IF \E c \in Classes : class_text(c) = s
    THEN Some(CHOOSE c \in Classes : class_text(c) = s)
    ELSE None

----------------------------------------------------------------------------
(* Date-time encoding (specification section 4.3).  A date is a record     *)
(* [y, m, d], a time of day a record [h, mi, s] (whole seconds).           *)

IsLeap(y) == (y % 4 = 0 /\ y % 100 # 0) \/ y % 400 = 0

DaysInMonth(y, m) ==
    IF m = 2 THEN (IF IsLeap(y) THEN 29 ELSE 28)
    ELSE IF m \in {4, 6, 9, 11} THEN 30 ELSE 31

(* NAIVE_DATE_FORMAT "%Y%m%d" *)
format_date(d) == Pad(d.y, 4) \o Pad(d.m, 2) \o Pad(d.d, 2)

(* "%H%M%S" *)
format_time(t) == Pad(t.h, 2) \o Pad(t.mi, 2) \o Pad(t.s, 2)

(* NAIVE_DATE_TIME_FORMAT "%Y%m%dT%H%M%S" *)
format_naive_date_time(dt) ==
    format_date(dt.date) \o <<"T">> \o format_time(dt.time)

(* format_utc_date_time: UTC_DATE_TIME_FORMAT "%Y%m%dT%H%M%SZ" *)
format_utc_date_time(dt) == format_naive_date_time(dt) \o <<"Z">>

parse_date(s) ==
    IF Len(s) # 8 THEN None
    ELSE LET y == parse_field(SubSeq(s, 1, 4), 0)
             m == parse_field(SubSeq(s, 5, 6), 0)
             d == parse_field(SubSeq(s, 7, 8), 0)
         IN  IF ~(IsSome(y) /\ IsSome(m) /\ IsSome(d)) THEN None
             ELSE IF m[1] \notin 1..12 THEN None
             ELSE IF d[1] \notin 1..DaysInMonth(y[1], m[1]) THEN None
             ELSE Some([y |-> y[1], m |-> m[1], d |-> d[1]])

parse_time(s) ==
    IF Len(s) # 6 THEN None
    ELSE LET h == parse_field(SubSeq(s, 1, 2), 0)
             mi == parse_field(SubSeq(s, 3, 4), 0)
             sec == parse_field(SubSeq(s, 5, 6), 0)
         IN  IF ~(IsSome(h) /\ IsSome(mi) /\ IsSome(sec)) THEN None
             ELSE IF h[1] > 23 \/ mi[1] > 59 \/ sec[1] > 59 THEN None
             ELSE Some([h |-> h[1], mi |-> mi[1], s |-> sec[1]])

parse_naive_date_time(s) ==
    IF Len(s) # 15 THEN None
    ELSE IF s[9] # "T" THEN None
    ELSE LET d == parse_date(SubSeq(s, 1, 8))
             t == parse_time(SubSeq(s, 10, 15))
         IN  IF IsSome(d) /\ IsSome(t)
             THEN Some([date |-> d[1], time |-> t[1]])
             ELSE None

(* parse_utc_date_time: the text must end in Z *)
parse_utc_date_time(s) ==
    IF Len(s) # 16 THEN None
    ELSE IF s[16] # "Z" THEN None
    ELSE parse_naive_date_time(SubSeq(s, 1, 15))

(* The four variants of DatePerhapsTime.                                   *)
DateOnly(d) == [tag |-> "Date", date |-> d]

Floating(dt) == [tag |-> "Floating", date |-> dt.date, time |-> dt.time]

Utc(dt) == [tag |-> "Utc", date |-> dt.date, time |-> dt.time]

WithTimezone(dt, tzid) ==
    [tag |-> "WithTimezone", date |-> dt.date, time |-> dt.time, tzid |-> tzid]

(* naive_date_to_property: VALUE=DATE:YYYYMMDD *)
naive_date_to_property(date, key) ==
    append_parameter(Property(key, format_date(date)), Parameter("VALUE", "DATE"))

(* DatePerhapsTime::to_property *)
to_property(v, key) ==
    CASE v.tag = "Date" -> naive_date_to_property(v.date, key)
      [] v.tag = "Floating" -> Property(key, format_naive_date_time(v))
      [] v.tag = "Utc" -> Property(key, format_utc_date_time(v))
      [] v.tag = "WithTimezone" ->
            append_parameter(Property(key, format_naive_date_time(v)),
                             Parameter("TZID", v.tzid))

(* DatePerhapsTime::from_property: the VALUE parameter, the TZID parameter *)
(* and a trailing Z select the variant; anything else is None.             *)
from_property(p) ==
    IF param_value(p, "VALUE") = Some("DATE")
    THEN LET d == parse_date(p.val) IN
         IF IsSome(d) THEN Some(DateOnly(d[1])) ELSE None
    ELSE IF IsSome(param_value(p, "TZID"))
    THEN LET dt == parse_naive_date_time(p.val) IN
         IF IsSome(dt) THEN Some(WithTimezone(dt[1], param_value(p, "TZID")[1]))
         ELSE None
    ELSE IF p.val # <<>> /\ p.val[Len(p.val)] = "Z"
    THEN LET dt == parse_utc_date_time(p.val) IN
         IF IsSome(dt) THEN Some(Utc(dt[1])) ELSE None
    ELSE LET dt == parse_naive_date_time(p.val) IN
         IF IsSome(dt) THEN Some(Floating(dt[1])) ELSE None

----------------------------------------------------------------------------
(* Component storage: InnerComponent.  The BTreeMap<String, Property> is   *)
(* the sequence of its entries [key, prop] in ascending key order, which   *)
(* is the order BTreeMap::values() iterates in; the Vec<Property> is a     *)
(* sequence.                                                               *)

(* Every key the model's calls can store, in ascending byte order: the     *)
(* order of Rust's String.                                                 *)
SortedKeys ==
    <<"ATTENDEE", "CLASS", "DESCRIPTION", "DTEND", "DTSTAMP", "DTSTART",
      "EXDATE", "LOCATION", "PRIORITY", "RECURRENCE-ID", "SUMMARY", "UID",
      "URL">>

KeyRank(k) == CHOOSE i \in 1..Len(SortedKeys) : SortedKeys[i] = k

(* InnerComponent::default() *)
EmptyComponent == [properties |-> <<>>, multi_properties |-> <<>>]

(* BTreeMap::insert: the entry under an equal key is replaced, a new key   *)
(* takes its place in key order.                                           *)
map_insert(m, key, prop) ==
    SelectSeq(m, LAMBDA e : KeyRank(e.key) < KeyRank(key))
        \o <<[key |-> key, prop |-> prop]>>
        \o SelectSeq(m, LAMBDA e : KeyRank(e.key) > KeyRank(key))

(* BTreeMap::contains_key *)
contains_key(m, key) == \E i \in 1..Len(m) : m[i].key = key

(* BTreeMap::get *)
map_get(m, key) ==
    LET hits == SelectSeq(m, LAMBDA e : e.key = key) IN
    IF hits = <<>> THEN None ELSE Some(hits[1].prop)

(* BTreeMap::values *)
map_values(m) == [i \in 1..Len(m) |-> m[i].prop]

(* InnerComponent::done: the value returned ...                            *)
done_value(c) ==
    [properties |-> c.properties, multi_properties |-> c.multi_properties]

(* A done() that copies: the source keeps what it held. *)
done_source_clone(c) == c

(* ... and what mem::take leaves in self.                                  *)
done_source(c) == [properties |-> <<>>, multi_properties |-> <<>>]

----------------------------------------------------------------------------
(* The Component trait.  Each method is an operator from the component     *)
(* (and the arguments) to the component after the call, or to the value    *)
(* a getter returns.                                                       *)

(* An insertion that keeps the entry already under the key. *)
append_property_dup(c, property) ==
    [c EXCEPT !.properties = Append(@, [key |-> property.key, prop |-> property])]

append_property(c, property) ==
    [c EXCEPT !.properties = map_insert(@, property.key, property)]

(* A push that skips a property the list already holds. *)
append_multi_property_dedup(c, property) ==
    IF \E i \in 1..Len(c.multi_properties) : c.multi_properties[i] = property
    THEN c
    ELSE [c EXCEPT !.multi_properties = Append(@, property)]

append_multi_property(c, property) ==
    [c EXCEPT !.multi_properties = Append(@, property)]

add_property(c, key, val) == append_property(c, Property(key, val))

add_multi_property(c, key, val) == append_multi_property(c, Property(key, val))

property_value(c, key) ==
    LET p == map_get(c.properties, key) IN
    IF IsSome(p) THEN Some(p[1].val) ELSE None

(* A timestamp stored in the floating form, without the Z. *)
timestamp_floating(c, dt) ==
    [c EXCEPT !.properties =
        map_insert(@, "DTSTAMP", Property("DTSTAMP", format_naive_date_time(dt)))]

timestamp(c, dt) == add_property(c, "DTSTAMP", format_utc_date_time(dt))

get_timestamp(c) ==
    LET v == property_value(c, "DTSTAMP") IN
    IF IsSome(v) THEN parse_utc_date_time(v[1]) ELSE None

get_start(c) ==
    LET p == map_get(c.properties, "DTSTART") IN
    IF IsSome(p) THEN from_property(p[1]) ELSE None

get_end(c) ==
    LET p == map_get(c.properties, "DTEND") IN
    IF IsSome(p) THEN from_property(p[1]) ELSE None

get_recurrence_id(c) ==
    LET p == map_get(c.properties, "RECURRENCE-ID") IN
    IF IsSome(p) THEN from_property(p[1]) ELSE None

(* filter on the key, then filter_map on the decoding, in list order       *)
RECURSIVE exdates_of(_)
exdates_of(ps) ==
    IF ps = <<>> THEN <<>>
    ELSE (IF ps[1].key = "EXDATE" THEN from_property(ps[1]) ELSE <<>>)
             \o exdates_of(Tail(ps))

get_exdates(c) == exdates_of(c.multi_properties)

starts(c, dt) == append_property(c, to_property(dt, "DTSTART"))

ends(c, dt) == append_property(c, to_property(dt, "DTEND"))

recurrence_id(c, dt) == append_property(c, to_property(dt, "RECURRENCE-ID"))

exdate(c, dt) == append_multi_property(c, to_property(dt, "EXDATE"))

all_day(c, date) ==
    append_property(append_property(c, naive_date_to_property(date, "DTSTART")),
                    naive_date_to_property(date, "DTEND"))

Min(a, b) == IF a < b THEN a ELSE b

(* A priority stored as given, not clamped. *)
priority_unclamped(c, p) ==
    [c EXCEPT !.properties = map_insert(@, "PRIORITY", Property("PRIORITY", to_string(p)))]

priority(c, p) == add_property(c, "PRIORITY", to_string(Min(p, 10)))

(* A getter without the bound check. *)
get_priority_unbounded(c) ==
    LET hits == SelectSeq(c.properties, LAMBDA e : e.key = "PRIORITY") IN
    IF hits = <<>> THEN None ELSE parse_u32(hits[1].prop.val)

get_priority(c) ==
    LET v == property_value(c, "PRIORITY") IN
    IF ~IsSome(v) THEN None
    ELSE LET n == parse_u32(v[1]) IN
         IF ~IsSome(n) THEN None
         ELSE IF n[1] <= 10 THEN Some(n[1]) ELSE None

summary(c, desc) == add_property(c, "SUMMARY", desc)

get_summary(c) == property_value(c, "SUMMARY")

description(c, desc) == add_property(c, "DESCRIPTION", desc)

get_description(c) == property_value(c, "DESCRIPTION")

location(c, loc) == add_property(c, "LOCATION", loc)

get_location(c) == property_value(c, "LOCATION")

(* A venue() that pushes to multi_properties. *)
venue_multi(c, loc, venue_uid) ==
    [c EXCEPT !.multi_properties =
        Append(@, append_parameter(Property("LOCATION", loc),
                                   Parameter("VVENUE", venue_uid)))]

venue(c, loc, venue_uid) ==
    append_property(c, append_parameter(Property("LOCATION", loc),
                                        Parameter("VVENUE", venue_uid)))

uid(c, id) == add_property(c, "UID", id)

get_uid(c) == property_value(c, "UID")

class(c, cls) == append_property(c, class_property(cls))

get_class(c) ==
    LET v == property_value(c, "CLASS") IN
    IF IsSome(v) THEN class_from_str(v[1]) ELSE None

url(c, u) == add_property(c, "URL", u)

get_url(c) == property_value(c, "URL")

(* The lines of a list of properties, one per property, in list order.     *)
property_lines(ps) == [i \in 1..Len(ps) |-> property_line(ps[i])]

(* A fmt_write that synthesizes the UID before the stored properties. *)
fmt_write_uid_first(c, k, now, uuid) ==
    <<text_line("BEGIN", k)>>
        \o (IF ~contains_key(c.properties, "DTSTAMP")
            THEN <<text_line("DTSTAMP", format_utc_date_time(now))>>
            ELSE <<>>)
        \o (IF ~contains_key(c.properties, "UID")
            THEN <<text_line("UID", uuid)>>
            ELSE <<>>)
        \o property_lines(map_values(c.properties))
        \o property_lines(c.multi_properties)
        \o <<text_line("END", k)>>

(* A fmt_write that never synthesizes the DTSTAMP. *)
fmt_write_no_dtstamp(c, k, now, uuid) ==
    <<text_line("BEGIN", k)>>
        \o property_lines(map_values(c.properties))
        \o (IF ~contains_key(c.properties, "UID")
            THEN <<text_line("UID", uuid)>>
            ELSE <<>>)
        \o property_lines(c.multi_properties)
        \o <<text_line("END", k)>>

(* A fmt_write that synthesizes the UID whether or not one is stored. *)
fmt_write_always_uid(c, k, now, uuid) ==
    <<text_line("BEGIN", k)>>
        \o (IF ~contains_key(c.properties, "DTSTAMP")
            THEN <<text_line("DTSTAMP", format_utc_date_time(now))>>
            ELSE <<>>)
        \o property_lines(map_values(c.properties))
        \o <<text_line("UID", uuid)>>
        \o property_lines(c.multi_properties)
        \o <<text_line("END", k)>>

(* Component::fmt_write for a component of kind k, with the instant        *)
(* Utc::now() returns and the text of the identifier Uuid::new_v4()        *)
(* returns: the lines written to the sink.                                 *)
fmt_write(c, k, now, uuid) ==
    <<text_line("BEGIN", k)>>
        \o (IF ~contains_key(c.properties, "DTSTAMP")
            THEN <<text_line("DTSTAMP", format_utc_date_time(now))>>
            ELSE <<>>)
        \o property_lines(map_values(c.properties))
        \o (IF ~contains_key(c.properties, "UID")
            THEN <<text_line("UID", uuid)>>
            ELSE <<>>)
        \o property_lines(c.multi_properties)
        \o <<text_line("END", k)>>

----------------------------------------------------------------------------
(* The inputs the calls are made with.                                     *)

(* component_impl!: Event, Todo, Venue *)
Kinds == {<<"VEVENT">>, <<"VTODO">>, <<"VVENUE">>}

Texts == {<<"a">>, <<"b">>}

OneText == {<<"a">>}

Date1 == [y |-> 2001, m |-> 3, d |-> 13]

Date2 == [y |-> 2024, m |-> 2, d |-> 29]

Time1 == [h |-> 14, mi |-> 15, s |-> 16]

Time2 == [h |-> 0, mi |-> 5, s |-> 9]

DateTimes == [date : {Date1, Date2}, time : {Time1, Time2}]

TzIds == {"Pacific/Auckland"}

(* every variant of DatePerhapsTime *)
AllDates ==
    {DateOnly(d) : d \in {Date1, Date2}}
        \cup {Floating(dt) : dt \in DateTimes}
        \cup {Utc(dt) : dt \in DateTimes}
        \cup {WithTimezone(dt, tz) : dt \in DateTimes, tz \in TzIds}

(* one value of each variant, for the runs that mix all the calls *)
SomeDates ==
    {DateOnly(Date1), WithTimezone([date |-> Date2, time |-> Time2], "Pacific/Auckland")}

SomeExdates ==
    {Utc([date |-> Date1, time |-> Time1]), Floating([date |-> Date2, time |-> Time2])}

(* what Utc::now() may return, and the text of what Uuid::new_v4() may *)
Nows == {[date |-> Date2, time |-> Time1]}

Uuids == {<<"u", "1">>, <<"u", "2">>}

SomePriorities == {5, 15}

PriorityInputs == {0, 1, 9, 10, 11, 12, 400, 2147483647}

(* texts a caller may store under PRIORITY with add_property *)
PriorityTexts ==
    {<<"7">>, <<"1", "0">>, <<"1", "1">>, <<"0", "0", "3">>, <<"+", "4">>,
     <<"-", "1">>, <<>>, <<"x">>, <<"1", " ">>, <<"+">>,
     <<"4", "2", "9", "4", "9", "6", "7", "2", "9", "6">>,
     <<"9", "9", "9", "9", "9", "9", "9", "9", "9", "9", "9">>}

SomeKeys == {"UID", "ATTENDEE"}

SomeMultiKeys == {"UID", "EXDATE", "LOCATION"}

----------------------------------------------------------------------------
(* The state machine: one action per call.                                 *)

TypeOK ==
    /\ kind \in Kinds
    /\ calls \in Nat
    /\ Len(returned) <= 1

(* Event::new() / Todo::new() / Venue::new(): an empty InnerComponent *)
Init ==
    /\ kind \in Kinds
    /\ inner = EmptyComponent
    /\ returned = None
    /\ out = <<>>
    /\ last = [op |-> "new", args |-> <<>>]
    /\ pre = [inner |-> EmptyComponent, returned |-> None]
    /\ calls = 0

(* A builder call op(args) that leaves the component as c. *)
Call(limit, op, args, c) ==
    /\ calls < limit
    /\ inner' = c
    /\ last' = [op |-> op, args |-> args]
    /\ pre' = [inner |-> inner, returned |-> returned]
    /\ calls' = calls + 1
    /\ UNCHANGED <<kind, returned, out>>

CallSummary ==
    \E desc \in Texts : Call(MaxCalls, "summary", <<desc>>, summary(inner, desc))

CallDescription ==
    \E desc \in OneText :
        Call(MaxCalls, "description", <<desc>>, description(inner, desc))

CallLocation ==
    \E loc \in Texts : Call(MaxCalls, "location", <<loc>>, location(inner, loc))

CallVenue ==
    \E loc \in {<<"b">>} :
        Call(MaxCalls, "venue", <<loc, "v1">>, venue(inner, loc, "v1"))

CallUid ==
    \E id \in Texts : Call(MaxCalls, "uid", <<id>>, uid(inner, id))

CallUrl ==
    \E u \in OneText : Call(MaxCalls, "url", <<u>>, url(inner, u))

CallClass ==
    \E cls \in Classes : Call(MaxCalls, "class", <<cls>>, class(inner, cls))

CallPriority ==
    \E p \in SomePriorities :
        Call(MaxCalls, "priority", <<p>>, priority(inner, p))

CallStarts ==
    \E dt \in SomeDates : Call(MaxCalls, "starts", <<dt>>, starts(inner, dt))

CallEnds ==
    \E dt \in SomeDates : Call(MaxCalls, "ends", <<dt>>, ends(inner, dt))

CallRecurrenceId ==
    \E dt \in {Floating([date |-> Date1, time |-> Time2])} :
        Call(MaxCalls, "recurrence_id", <<dt>>, recurrence_id(inner, dt))

CallExdate ==
    \E dt \in SomeExdates : Call(MaxCalls, "exdate", <<dt>>, exdate(inner, dt))

CallAllDay ==
    \E date \in {Date2} : Call(MaxCalls, "all_day", <<date>>, all_day(inner, date))

CallTimestamp ==
    \E dt \in {[date |-> Date1, time |-> Time1]} :
        Call(MaxCalls, "timestamp", <<dt>>, timestamp(inner, dt))

CallAddProperty ==
    \E key \in SomeKeys :
        Call(MaxCalls, "add_property", <<key, <<"c">>>>,
             add_property(inner, key, <<"c">>))

CallAddMultiProperty ==
    \E key \in SomeMultiKeys :
        Call(MaxCalls, "add_multi_property", <<key, <<"d">>>>,
             add_multi_property(inner, key, <<"d">>))

(* done(): the builder hands out what it holds and is left empty *)
Done(limit) ==
    /\ calls < limit
    /\ returned' = Some(done_value(inner))
    /\ inner' = done_source(inner)
    /\ last' = [op |-> "done", args |-> <<>>]
    /\ pre' = [inner |-> inner, returned |-> returned]
    /\ calls' = calls + 1
    /\ UNCHANGED <<kind, out>>

CallDone == Done(MaxCalls)

(* The component a later call reads: the builder, or the value done() returned. *)
Target(t) == IF t = "returned" THEN returned[1] ELSE inner

(* fmt_write (to_string, try_into_string, print) on either component *)
Write(limit) ==
    \E t \in {"source", "returned"}, now \in Nows, uuid \in Uuids :
        /\ calls < limit
        /\ t = "returned" => IsSome(returned)
        /\ out' = fmt_write(Target(t), kind, now, uuid)
        /\ last' = [op |-> "fmt_write", args |-> <<t, now, uuid>>]
        /\ pre' = [inner |-> inner, returned |-> returned]
        /\ calls' = calls + 1
        /\ UNCHANGED <<kind, inner, returned>>

CallFmtWrite == Write(MaxCalls)

Next ==
    \/ CallSummary
    \/ CallDescription
    \/ CallLocation
    \/ CallVenue
    \/ CallUid
    \/ CallUrl
    \/ CallClass
    \/ CallPriority
    \/ CallStarts
    \/ CallEnds
    \/ CallRecurrenceId
    \/ CallExdate
    \/ CallAllDay
    \/ CallTimestamp
    \/ CallAddProperty
    \/ CallAddMultiProperty
    \/ CallDone
    \/ CallFmtWrite

Spec == Init /\ [][Next]_vars

----------------------------------------------------------------------------
(* The priority calls alone, over a wider range of inputs.                 *)

InitOneKind == Init /\ kind = <<"VEVENT">>

PriorityCall ==
    \E p \in PriorityInputs :
        Call(MaxPriorityCalls, "priority", <<p>>, priority(inner, p))

PriorityAddProperty ==
    \E t \in PriorityTexts :
        Call(MaxPriorityCalls, "add_property", <<"PRIORITY", t>>,
             add_property(inner, "PRIORITY", t))

PriorityDone == Done(MaxPriorityCalls)

NextPriority ==
    \/ PriorityCall
    \/ PriorityAddProperty
    \/ PriorityDone

SpecPriority == InitOneKind /\ [][NextPriority]_vars

(* The date and time calls alone, over every variant of DatePerhapsTime.   *)

DateStarts ==
    \E dt \in AllDates : Call(MaxDateCalls, "starts", <<dt>>, starts(inner, dt))

DateEnds ==
    \E dt \in AllDates : Call(MaxDateCalls, "ends", <<dt>>, ends(inner, dt))

DateRecurrenceId ==
    \E dt \in AllDates :
        Call(MaxDateCalls, "recurrence_id", <<dt>>, recurrence_id(inner, dt))

DateExdate ==
    \E dt \in AllDates : Call(MaxDateCalls, "exdate", <<dt>>, exdate(inner, dt))

DateTimestamp ==
    \E dt \in DateTimes :
        Call(MaxDateCalls, "timestamp", <<dt>>, timestamp(inner, dt))

DateAllDay ==
    \E date \in {Date1, Date2} :
        Call(MaxDateCalls, "all_day", <<date>>, all_day(inner, date))

NextDateTime ==
    \/ DateStarts
    \/ DateEnds
    \/ DateRecurrenceId
    \/ DateExdate
    \/ DateTimestamp
    \/ DateAllDay

SpecDateTime == InitOneKind /\ [][NextDateTime]_vars

----------------------------------------------------------------------------
(* Properties.                                                             *)

(* The component the latest fmt_write serialized. *)
Written == Target(last.args[1])

(* How many lines of a text start with the key k. *)
CountLines(lines, k) == Cardinality({i \in 1..Len(lines) : line_key(lines[i]) = k})

(* How many properties of a list have the key k. *)
CountProps(ps, k) == Cardinality({i \in 1..Len(ps) : ps[i].key = k})

StoredKeys(c) == {c.properties[i].key : i \in 1..Len(c.properties)}

MultiKeys(c) == {c.multi_properties[i].key : i \in 1..Len(c.multi_properties)}

(* C1: fmt_write emits, in this order: BEGIN:<KIND>; a synthesized DTSTAMP  *)
(* line iff the map has no DTSTAMP key; every single-valued property in    *)
(* ascending key order; a synthesized UID line iff the map has no UID key; *)
(* every multi-valued property in insertion order; END:<KIND>.             *)
C1_WriteOrder ==
    last.op = "fmt_write" =>
        LET c == Written
            n == Len(c.properties)
            m == Len(c.multi_properties)
            d == IF "DTSTAMP" \in StoredKeys(c) THEN 0 ELSE 1
            u == IF "UID" \in StoredKeys(c) THEN 0 ELSE 1
        IN  /\ Len(out) = 1 + d + n + u + m + 1
            /\ out[1] = <<"BEGIN", ":">> \o kind
            /\ d = 1 => out[2] = <<"DTSTAMP", ":">> \o format_utc_date_time(last.args[2])
            /\ \A i \in 1..n :
                  /\ out[1 + d + i] = property_line(c.properties[i].prop)
                  /\ c.properties[i].prop.key = c.properties[i].key
            /\ \A i \in 1..(n - 1) :
                  KeyRank(c.properties[i].key) < KeyRank(c.properties[i + 1].key)
            /\ u = 1 => out[1 + d + n + 1] = <<"UID", ":">> \o last.args[3]
            /\ \A j \in 1..m :
                  out[1 + d + n + u + j] = property_line(c.multi_properties[j])
            /\ out[Len(out)] = <<"END", ":">> \o kind

C1_Witness ==
    /\ last.op = "fmt_write"
    /\ Len(Written.properties) >= 1
    /\ Len(Written.multi_properties) >= 1
    /\ "DTSTAMP" \notin StoredKeys(Written)
    /\ "UID" \notin StoredKeys(Written)

(* C2: a component on which neither UID nor DTSTAMP was set serializes     *)
(* with exactly one UID line and exactly one DTSTAMP line: DTSTAMP right   *)
(* after BEGIN, UID after the single-valued properties and before the      *)
(* multi-valued ones.                                                      *)
C2_DefaultsOnce ==
    (/\ last.op = "fmt_write"
     /\ {"UID", "DTSTAMP"} \cap (StoredKeys(Written) \cup MultiKeys(Written)) = {})
        => LET n == Len(Written.properties) IN
           /\ CountLines(out, "UID") = 1
           /\ CountLines(out, "DTSTAMP") = 1
           /\ line_key(out[1]) = "BEGIN"
           /\ line_key(out[2]) = "DTSTAMP"
           /\ line_key(out[2 + n + 1]) = "UID"
           /\ \A i \in 3..(2 + n) : line_key(out[i]) \in StoredKeys(Written)
           /\ Len(out) = 2 + n + 1 + Len(Written.multi_properties) + 1

C2_Witness ==
    /\ last.op = "fmt_write"
    /\ {"UID", "DTSTAMP"} \cap (StoredKeys(Written) \cup MultiKeys(Written)) = {}
    /\ Len(Written.properties) >= 1
    /\ Len(Written.multi_properties) >= 1
    /\ CountLines(out, "UID") = 1

(* C3, as stated: setting DTSTAMP or UID by any mutator, the multi-valued  *)
(* ones included, suppresses the synthesis, so the key is on exactly as   *)
(* many lines as the caller stored.                                        *)
C3_AnyMutatorSuppresses ==
    last.op = "fmt_write" =>
        \A k \in {"UID", "DTSTAMP"} :
            k \in StoredKeys(Written) \cup MultiKeys(Written) =>
                CountLines(out, k) =
                    CountProps(map_values(Written.properties), k)
                        + CountProps(Written.multi_properties, k)

(* C3, amended: setting DTSTAMP or UID by a single-valued mutator          *)
(* (timestamp, uid, add_property, append_property) suppresses the          *)
(* synthesis, and the key is then on exactly as many lines as the caller   *)
(* stored; setting it only by add_multi_property or append_multi_property  *)
(* does not: the output then has the synthesized line and the stored ones. *)
C3_SingleMutatorSuppresses ==
    last.op = "fmt_write" =>
        \A k \in {"UID", "DTSTAMP"} :
            LET stored == CountProps(map_values(Written.properties), k)
                              + CountProps(Written.multi_properties, k)
            IN  /\ k \in StoredKeys(Written) => CountLines(out, k) = stored
                /\ k \notin StoredKeys(Written) => CountLines(out, k) = stored + 1

C3_Witness ==
    /\ last.op = "fmt_write"
    /\ "DTSTAMP" \in StoredKeys(Written)
    /\ "UID" \in MultiKeys(Written) \ StoredKeys(Written)
    /\ CountLines(out, "DTSTAMP") = 1
    /\ CountLines(out, "UID") = 2

(* The decimal text of a number from 0 to 10, written out. *)
Decimal(n) == IF n = 10 THEN <<"1", "0">> ELSE <<Digits[n + 1]>>

Clamped(p) == IF p > 10 THEN 10 ELSE p

(* C4: after priority(p) the stored PRIORITY value is the decimal text of  *)
(* min(p, 10), and get_priority() returns Some(min(p, 10)).                *)
C4_PriorityClamped ==
    last.op = "priority" =>
        /\ property_value(inner, "PRIORITY") = Some(Decimal(Clamped(last.args[1])))
        /\ get_priority(inner) = Some(Clamped(last.args[1]))

C4_Witness ==
    /\ last.op = "priority"
    /\ last.args[1] > 10
    /\ property_value(inner, "PRIORITY") = Some(<<"1", "0">>)
    /\ get_priority(inner) = Some(10)

(* The single-valued setters, the key each one stores under, and what the  *)
(* matching getter is to return after the call.                            *)
SingleSetters ==
    {"summary", "description", "location", "uid", "url", "priority", "class",
     "starts", "ends", "recurrence_id", "timestamp", "add_property"}

SetterKey(call) ==
    CASE call.op = "summary" -> "SUMMARY"
      [] call.op = "description" -> "DESCRIPTION"
      [] call.op = "location" -> "LOCATION"
      [] call.op = "uid" -> "UID"
      [] call.op = "url" -> "URL"
      [] call.op = "priority" -> "PRIORITY"
      [] call.op = "class" -> "CLASS"
      [] call.op = "starts" -> "DTSTART"
      [] call.op = "ends" -> "DTEND"
      [] call.op = "recurrence_id" -> "RECURRENCE-ID"
      [] call.op = "timestamp" -> "DTSTAMP"
      [] call.op = "add_property" -> call.args[1]

GetterReturnsLast(call, c) ==
    CASE call.op = "summary" -> get_summary(c) = Some(call.args[1])
      [] call.op = "description" -> get_description(c) = Some(call.args[1])
      [] call.op = "location" -> get_location(c) = Some(call.args[1])
      [] call.op = "uid" -> get_uid(c) = Some(call.args[1])
      [] call.op = "url" -> get_url(c) = Some(call.args[1])
      [] call.op = "priority" -> get_priority(c) = Some(Clamped(call.args[1]))
      [] call.op = "class" -> get_class(c) = Some(call.args[1])
      [] call.op = "starts" -> get_start(c) = Some(call.args[1])
      [] call.op = "ends" -> get_end(c) = Some(call.args[1])
      [] call.op = "recurrence_id" -> get_recurrence_id(c) = Some(call.args[1])
      [] call.op = "timestamp" -> get_timestamp(c) = Some(call.args[1])
      [] call.op = "add_property" -> property_value(c, call.args[1]) = Some(call.args[2])

(* The lines fmt_write gives the single-valued properties and the          *)
(* synthesized ones: everything but BEGIN, the multi-valued lines and END. *)
SingleSection(c, lines) ==
    SubSeq(lines, 2, Len(lines) - Len(c.multi_properties) - 1)

LinesOf(lines, k) == SelectSeq(lines, LAMBDA l : line_key(l) = k)

PropsOf(ps, k) == SelectSeq(ps, LAMBDA q : q.key = k)

(* C6: every exdate / add_multi_property call appends one entry to         *)
(* multi_properties and keeps the earlier ones in place, duplicates        *)
(* included; no other call but done() touches the list; get_exdates()      *)
(* gains the value of each exdate call at its end; and each EXDATE entry   *)
(* is serialized as a line of its own, in insertion order.                 *)
C6_MultiAppends ==
    /\ last.op = "exdate" =>
          /\ Len(inner.multi_properties) = Len(pre.inner.multi_properties) + 1
          /\ SubSeq(inner.multi_properties, 1, Len(pre.inner.multi_properties))
                = pre.inner.multi_properties
          /\ inner.multi_properties[Len(inner.multi_properties)].key = "EXDATE"
          /\ get_exdates(inner) = Append(get_exdates(pre.inner), last.args[1])
          /\ inner.properties = pre.inner.properties
    /\ last.op = "add_multi_property" =>
          /\ inner.multi_properties
                = Append(pre.inner.multi_properties,
                         [key |-> last.args[1], val |-> last.args[2], params |-> <<>>])
          /\ inner.properties = pre.inner.properties
    /\ last.op \notin {"exdate", "add_multi_property", "done"} =>
          inner.multi_properties = pre.inner.multi_properties
    /\ last.op = "fmt_write" =>
          /\ Len(LinesOf(out, "EXDATE")) = CountProps(Written.multi_properties, "EXDATE")
          /\ LinesOf(out, "EXDATE")
                = property_lines(PropsOf(Written.multi_properties, "EXDATE"))

C6_Witness ==
    /\ last.op = "fmt_write"
    /\ Len(get_exdates(Written)) = 2
    /\ Len(LinesOf(out, "EXDATE")) = 2
    /\ get_exdates(Written)[1] = get_exdates(Written)[2]

(* C7: decoding what the encoding of a value produced yields the value     *)
(* again, for each variant of DatePerhapsTime: after starts(v), ends(v),   *)
(* recurrence_id(v) the getter returns Some(v), and after timestamp(t)     *)
(* get_timestamp() returns Some(t).                                        *)
C7_DateRoundTrip ==
    /\ last.op = "starts" => get_start(inner) = Some(last.args[1])
    /\ last.op = "ends" => get_end(inner) = Some(last.args[1])
    /\ last.op = "recurrence_id" => get_recurrence_id(inner) = Some(last.args[1])
    /\ last.op = "timestamp" => get_timestamp(inner) = Some(last.args[1])

C7_Witness ==
    /\ last.op = "ends"
    /\ last.args[1].tag = "WithTimezone"
    /\ get_end(inner) = Some(last.args[1])
    /\ IsSome(get_start(inner))
    /\ get_start(inner)[1].tag = "Date"

VenueProperty(call) ==
    [key |-> "LOCATION", val |-> call.args[1],
     params |-> <<[key |-> "VVENUE", val |-> call.args[2]]>>]

(* C9, as stated: the LOCATION venue() builds goes to multi_properties and *)
(* the single-valued LOCATION keeps what location() stored.                *)
C9_VenueIsMulti ==
    (last.op = "venue" /\ IsSome(get_location(pre.inner))) =>
        /\ map_get(inner.properties, "LOCATION")
              = map_get(pre.inner.properties, "LOCATION")
        /\ inner.multi_properties
              = Append(pre.inner.multi_properties, VenueProperty(last))

(* C9, amended: the LOCATION venue() builds goes through the single-valued *)
(* property map: after location(a) and venue(b, uid) the single-valued     *)
(* LOCATION holds b with the parameter VVENUE=uid, the value location()    *)
(* stored is replaced, and multi_properties is as it was.                  *)
C9_VenueIsSingle ==
    last.op = "venue" =>
        /\ map_get(inner.properties, "LOCATION") = Some(VenueProperty(last))
        /\ get_location(inner) = Some(last.args[1])
        /\ CountProps(map_values(inner.properties), "LOCATION") = 1
        /\ inner.multi_properties = pre.inner.multi_properties

C9_Witness ==
    /\ last.op = "venue"
    /\ get_location(pre.inner) = Some(<<"a">>)
    /\ map_get(pre.inner.properties, "LOCATION")[1].params = <<>>
    /\ get_location(inner) = Some(<<"b">>)

(* A numeral without leading zeros. *)
RECURSIVE StripZeros(_)
StripZeros(t) == IF Len(t) > 1 /\ t[1] = "0" THEN StripZeros(Tail(t)) ELSE t

(* The text t is a numeral, with or without a leading +, denoting n.       *)
Denotes(t, n) ==
    LET body == IF t # <<>> /\ t[1] = "+" THEN Tail(t) ELSE t IN
    /\ body # <<>>
    /\ \A i \in 1..Len(body) : \E j \in 1..10 : Digits[j] = body[i]
    /\ StripZeros(body) = Decimal(n)

(* C10: get_priority() returns None when no PRIORITY is stored, when the   *)
(* stored text is not an unsigned number and when the number is above 10;  *)
(* otherwise it returns the stored number; it never returns more than 10.  *)
C10_PriorityBound ==
    LET v == property_value(inner, "PRIORITY")
        g == get_priority(inner)
    IN  /\ g = None \/ \E n \in 0..10 : g = Some(n)
        /\ ~IsSome(v) => g = None
        /\ IsSome(v) =>
              /\ \A n \in 0..10 : Denotes(v[1], n) => g = Some(n)
              /\ (~\E n \in 0..10 : Denotes(v[1], n)) => g = None

C10_Witness ==
    /\ last.op = "add_property"
    /\ last.args = <<"PRIORITY", <<"1", "1">>>>
    /\ property_value(inner, "PRIORITY") = Some(<<"1", "1">>)
    /\ get_priority(inner) = None

============================================================================
